---- MODULE Spec2Model ----
(***************************************************************************)
(* Entangld Datastore engine (libraries/unix/src/Datastore.cpp).           *)
(*                                                                         *)
(* Two stores, "A" and "B", each with the four members of class Datastore  *)
(* (m_local_data, m_remotes, m_requests, m_subs).  A remote's handler      *)
(* enqueues the message on the wire to the peer (as samples/client.cpp     *)
(* does with its socket); delivery calls the peer's receive.               *)
(*                                                                         *)
(* std::string is a sequence of one-character strings, so that the prefix  *)
(* tests (rfind(x, 0)) and substr are computed character by character.     *)
(* nlohmann::json is a tagged record: null, number, object, array.         *)
(***************************************************************************)
EXTENDS Integers, Sequences, FiniteSets, TLC

VARIABLES
    tree,       \* [store -> json]                 m_local_data
    remotes,    \* [store -> [name -> remote_t]]   m_remotes
    requests,   \* [store -> [uuid -> request_t]]  m_requests
    subs,       \* [store -> Seq(request_t)]       m_subs
    wire,       \* [store -> Seq(Message)]         messages the peer's handler enqueued for this store
    crashed,    \* the process hit undefined behaviour and terminated
    last,       \* the operation executed by the most recent step, with its outcome
    calls,      \* user callbacks invoked by the most recent step, in order
    sent,       \* messages handed to handlers by the most recent step, in order
    done,       \* [callback id -> number of times the callback of the get call holding that id has run]
    gone        \* callback ids of subscription records that unsubscribe removed

vars == <<tree, remotes, requests, subs, wire, crashed, last, calls, sent, done, gone>>

----------------------------------------------------------------------------
(* Bounds *)

MaxSubs   == 2      \* subscription records per store
MaxPending == 2     \* pending requests per store
MaxWire   == 2      \* messages in flight towards one store
MaxArr    == 2      \* elements of an array built by push

Stores == {"A", "B"}

\* Identities of the user callbacks: as many as the two stores can hold at once,
\* and one more for the call being made.
CbIds == 1..(2 * MaxSubs + 2 * MaxPending + 1)
Peer(s) == IF s = "A" THEN "B" ELSE "A"

\* The namespace under which a store is attached at its peer (test_get_remote.cpp
\* attaches "store_a" / "store_b"); here the one-letter names "A" and "B".
NameOf(s) == <<s>>

----------------------------------------------------------------------------
(* std::string helpers *)

\* F applied to the value of x, with x evaluated once (sequencing of statements)
Then(x, F(_)) == CHOOSE r \in {F(v) : v \in {x}} : TRUE

\* prefix by whole segments: p is s, or the root, or s continues p with a dot
StartsWith_Segment(s, p) ==
    /\ Len(p) <= Len(s) /\ \A i \in 1..Len(p) : s[i] = p[i]
    /\ (p = <<>> \/ Len(s) = Len(p) \/ s[Len(p) + 1] = ".")

\* the two strings overlap from index 0: either one begins with the other
StartsWith_Either(s, p) ==
    \A i \in 1..(IF Len(s) < Len(p) THEN Len(s) ELSE Len(p)) : s[i] = p[i]

\* s.rfind(p, 0) != std::string::npos : p occurs at index 0 of s
StartsWith(s, p) == Len(p) <= Len(s) /\ SubSeq(s, 1, Len(p)) = p

\* the remainder with the dot left in
StripNamespace_KeepDot(path, ns) == SubSeq(path, Len(ns) + 1, Len(path))

\* path.substr(ns.size()+1, path.size()-ns.size()-1)
StripNamespace(path, ns) == SubSeq(path, Len(ns) + 2, Len(path))

\* replace(local_path.begin(), local_path.end(), '.', '/'); local_path = '/' + local_path
LocalPath(path) ==
    IF path = <<>> THEN <<>>
    ELSE <<"/">> \o [i \in 1..Len(path) |-> IF path[i] = "." THEN "/" ELSE path[i]]

\* nlohmann::json::json_pointer(local_path): the reference tokens, split at '/'
RECURSIVE SplitSlash(_, _, _)
SplitSlash(str, i, cur) ==
    IF i > Len(str) THEN <<cur>>
    ELSE IF str[i] = "/" THEN <<cur>> \o SplitSlash(str, i + 1, <<>>)
    ELSE SplitSlash(str, i + 1, Append(cur, str[i]))

JsonPointer(local_path) ==
    IF local_path = <<>> THEN <<>> ELSE SplitSlash(local_path, 2, <<>>)

\* the conversion without the replace of '.' by '/': the path is one token
PathPointer_NoSplit(path) == IF path = <<>> THEN <<>> ELSE <<path>>

PathPointer(path) == JsonPointer(LocalPath(path))

----------------------------------------------------------------------------
(* nlohmann::json values *)

Null    == [t |-> "null"]
Num(n)  == [t |-> "num", v |-> n]
Obj(f)  == [t |-> "obj", m |-> f]
Arr(q)  == [t |-> "arr", a |-> q]
EmptyObj == Obj([k \in {} |-> Null])
JErr(e) == [t |-> "error", what |-> e]

IsErr(j) == j.t = "error"

\* a key bound to the value it already holds is removed instead
ObjWith_Toggle(j, k, v) ==
    IF k \in DOMAIN j.m /\ j.m[k] = v THEN Obj([x \in DOMAIN j.m \ {k} |-> j.m[x]])
    ELSE Obj([x \in DOMAIN j.m \cup {k} |-> IF x = k THEN v ELSE j.m[x]])

\* object with key k bound to v (operator[](key) = v)
ObjWith(j, k, v) == Obj([x \in DOMAIN j.m \cup {k} |-> IF x = k THEN v ELSE j.m[x]])

\* json_pointer::get_checked: the value at the pointer of a const tree.
\* out_of_range for a missing key or a token below a scalar; an array indexed
\* by a non-numeric token is a parse error (the paths here hold no digits).
RECURSIVE GetChecked(_, _)
GetChecked(j, toks) ==
    IF toks = <<>> THEN j
    ELSE IF j.t = "obj" THEN
        IF Head(toks) \in DOMAIN j.m THEN GetChecked(j.m[Head(toks)], Tail(toks))
        ELSE JErr("out_of_range")
    ELSE IF j.t = "arr" THEN JErr("parse_error")
    ELSE JErr("out_of_range")

\* basic_json::value(ptr, default): objects only; out_of_range yields the default
JsonValue(j, toks, default) ==
    IF j.t # "obj" THEN JErr("type_error")
    ELSE LET r == GetChecked(j, toks)
         IN IF IsErr(r) /\ r.what = "out_of_range" THEN default ELSE r

\* the same with push placing the value in front of the array's elements
RECURSIVE GetUnchecked_PushFront(_, _, _, _)
GetUnchecked_PushFront(j, toks, mode, v) ==
    IF toks = <<>> THEN
        IF mode = "assign" THEN v
        ELSE IF mode = "push" THEN
            IF j.t = "null" THEN Arr(<<v>>)
            ELSE IF j.t = "arr" THEN Arr(<<v>> \o j.a)
            ELSE JErr("type_error")
        ELSE j
    ELSE LET j1 == IF j.t = "null" THEN EmptyObj ELSE j
         IN IF j1.t = "obj" THEN
                LET k == Head(toks)
                    child == IF k \in DOMAIN j1.m THEN j1.m[k] ELSE Null
                    r == GetUnchecked_PushFront(child, Tail(toks), mode, v)
                IN IF IsErr(r) THEN r ELSE ObjWith(j1, k, r)
            ELSE IF j1.t = "arr" THEN JErr("parse_error")
            ELSE JErr("out_of_range")

\* json_pointer::get_unchecked on a mutable tree, followed by what the caller
\* does with the reference: mode "assign" (= value), "push" (push_back(value))
\* or "read" (take a copy).  A null on the way becomes an object, a missing key
\* is created as null.  Returns the new tree, or an error and no change.
RECURSIVE GetUnchecked(_, _, _, _)
GetUnchecked(j, toks, mode, v) ==
    IF toks = <<>> THEN
        IF mode = "assign" THEN v
        ELSE IF mode = "push" THEN
            IF j.t = "null" THEN Arr(<<v>>)
            ELSE IF j.t = "arr" THEN Arr(Append(j.a, v))
            ELSE JErr("type_error")
        ELSE j
    ELSE LET j1 == IF j.t = "null" THEN EmptyObj ELSE j
         IN IF j1.t = "obj" THEN
                LET k == Head(toks)
                    child == IF k \in DOMAIN j1.m THEN j1.m[k] ELSE Null
                    r == GetUnchecked(child, Tail(toks), mode, v)
                IN IF IsErr(r) THEN r ELSE ObjWith(j1, k, r)
            ELSE IF j1.t = "arr" THEN JErr("parse_error")
            ELSE JErr("out_of_range")

----------------------------------------------------------------------------
(* Message.h, Datastore.h: records *)

\* The json held in Message::path as Datastore.cpp uses it: a string, or for a
\* subscription the object {"path": ..., "uuid": ...}.
PathStr(p)    == [k |-> "str", path |-> p, uuid |-> ""]
PathObj(p, u) == [k |-> "obj", path |-> p, uuid |-> u]
PathNull      == [k |-> "null", path |-> <<>>, uuid |-> ""]

Message(type, path, uuid, value) ==
    [type |-> type, path |-> path, uuid |-> uuid, value |-> value]

\* remote_t* : the map node it points to (by key).  dangling: the node was
\* erased; stale is the handler the freed record held.
Ref(key)  == [null |-> FALSE, key |-> key, dangling |-> FALSE, stale |-> 0]
NullRef   == [null |-> TRUE, key |-> <<>>, dangling |-> FALSE, stale |-> 0]

\* remote_t; handler 0 is the null function pointer
Remote(name, handler) == [name |-> name, handler |-> handler]

\* A callback with its context: a user's function (id names the call that
\* passed it), or one of the two lambdas of receive with ctx = remote_t*.
UserCb(id)     == [kind |-> "user", id |-> id, ctx |-> NullRef]
ReplyCb(ref)   == [kind |-> "reply", id |-> 0, ctx |-> ref]
ForwardCb(ref) == [kind |-> "forward", id |-> 0, ctx |-> ref]

\* request_t
Request(msg, remote, ptr, callback) ==
    [msg |-> msg, remote |-> remote, ptr |-> ptr, callback |-> callback]

\* get_uuidstring(): a uuid that nothing in the system carries, neither a
\* record of a store nor a message on a wire
UuidNames == <<"g1", "g2", "g3", "g4", "g5", "g6", "g7", "g8", "g9", "g10", "g11", "g12",
               "g13", "g14", "g15", "g16", "g17", "g18", "g19", "g20", "g21", "g22",
               "g23", "g24", "g25", "g26", "g27", "g28", "g29", "g30", "g31", "g32">>
UuidsOf(msg) == {msg.uuid, msg.path.uuid}
UuidsInUse ==
    UNION { UNION {UuidsOf(subs[s][i].msg) : i \in 1..Len(subs[s])}
            \cup DOMAIN requests[s]
            \cup UNION {UuidsOf(requests[s][u].msg) : u \in DOMAIN requests[s]}
            \cup UNION {UuidsOf(wire[s][i]) : i \in 1..Len(wire[s])} : s \in Stores }
get_uuidstring ==
    Then(UuidsInUse, LAMBDA used :
        UuidNames[CHOOSE i \in 1..Len(UuidNames) :
                    UuidNames[i] \notin used /\ \A j \in 1..(i - 1) : UuidNames[j] \in used])

----------------------------------------------------------------------------
(* One call into a store.  E is the store during the call:                 *)
(*   tree, remotes, requests, subs  the four members                       *)
(*   fresh   the uuid get_uuidstring returns in this call, genned: used    *)
(*   out     messages handed to handlers, calls  user callbacks invoked    *)
(*   err     the exception that left the call ("" if none)                 *)
(*   ret     the return value (unsubscribe's count)                        *)
(*   crashed undefined behaviour ended the process                         *)
(*   ub      how a use of a dangling remote_t* turns out in this call, and *)
(*           whether m_subs has room ("room") for a push_back              *)
(*   removed the records erased from m_subs by this call                   *)

Enter(s, ub) ==
    [tree |-> tree[s], remotes |-> remotes[s], requests |-> requests[s],
     subs |-> subs[s], fresh |-> get_uuidstring, genned |-> FALSE,
     out |-> <<>>, calls |-> <<>>,
     err |-> "", ret |-> 0, crashed |-> FALSE, ub |-> ub, removed |-> <<>>]

Running(E) == E.err = "" /\ ~E.crashed

Throw(E, e) == [E EXCEPT !.err = e]

\* transmit(remote, msg): remote->handler(msg, remote->handler_ctx)
transmit(E, ref, msg) ==
    IF ~Running(E) THEN E
    ELSE IF ref.null THEN [E EXCEPT !.crashed = TRUE]
    ELSE IF ref.dangling THEN
        IF E.ub = "stale" /\ ref.stale # 0
        THEN [E EXCEPT !.out = Append(@, [to |-> ref.key, handler |-> ref.stale, msg |-> msg])]
        ELSE [E EXCEPT !.crashed = TRUE]
    ELSE IF E.remotes[ref.key].handler = 0 THEN [E EXCEPT !.crashed = TRUE]
    ELSE [E EXCEPT !.out = Append(@, [to |-> ref.key,
                                      handler |-> E.remotes[ref.key].handler,
                                      msg |-> msg])]

\* Datastore::parse_namespace.  The names attached here never overlap (none
\* is another followed by a dot), so at most one key matches.
parse_namespace(E, path) ==
    LET hits == {k \in DOMAIN E.remotes : StartsWith(path, k \o <<".">>)}
    IN IF path = <<>> \/ hits = {} THEN <<>> ELSE CHOOSE k \in hits : TRUE

\* (uuid.empty()) ? get_uuidstring() : uuid
WithUuid(E, uuid) == IF uuid = "" THEN [E EXCEPT !.genned = TRUE] ELSE E
TheUuid(E, uuid)  == IF uuid = "" THEN E.fresh ELSE uuid

\* m_requests.insert(std::make_pair(uuid, request)): unordered_map::insert
\* keeps an entry already stored under the key
InsertRequest(table, u, request) ==
    IF u \in DOMAIN table THEN table
    ELSE [x \in DOMAIN table \cup {u} |-> IF x = u THEN request ELSE table[x]]

\* erase variants: the whole table cleared; nothing erased
EraseRequest_All(table, u)  == [x \in {} |-> table[x]]
EraseRequest_Keep(table, u) == table

\* m_requests.erase(uuid)
EraseRequest(table, u) == [x \in DOMAIN table \ {u} |-> table[x]]

\* Datastore::subscribe
subscribe(E, path, callback, uuid) ==
    LET u  == TheUuid(E, uuid)
        E1 == WithUuid(E, uuid)
        ns == parse_namespace(E, path)
    IN IF ~Running(E) THEN E
       ELSE IF ns = <<>> THEN
            LET sub == Request(Message("subscribe", PathObj(path, u), "", Null),
                               NullRef, PathPointer(path), callback)
            IN [E1 EXCEPT !.subs = Append(@, sub)]
       ELSE LET sub == Request(Message("subscribe", PathObj(StripNamespace(path, ns), u), "", Null),
                               Ref(ns), <<>>, callback)
            IN Then(transmit(E1, sub.remote, sub.msg),
                    LAMBDA E2 : IF Running(E2) THEN [E2 EXCEPT !.subs = Append(@, sub)]
                                ELSE E2)

\* A user callback that subscribes again: called with an event, it calls
\* store.subscribe(<the event's path>, cb2, nullptr, "u9") with a callback cb2
\* of its own (one that only takes the event).
ResubCb(id) == [kind |-> "resub", id |-> id, ctx |-> NullRef]

\* a callback no record of the store holds
FreshCb(E) ==
    LET used == {E.subs[i].callback.id : i \in 1..Len(E.subs)}
                \cup {E.requests[u].callback.id : u \in DOMAIN E.requests}
    IN CHOOSE i \in CbIds : i \notin used /\ \A j \in 1..(i - 1) : j \in used

\* callback(msg, callback_ctx)
Invoke(E, cb, msg) ==
    IF ~Running(E) THEN E
    ELSE IF cb.kind = "user" THEN
        [E EXCEPT !.calls = Append(@, [id |-> cb.id, msg |-> msg, tree |-> E.tree])]
    ELSE IF cb.kind = "resub" THEN
        Then([E EXCEPT !.calls = Append(@, [id |-> cb.id, msg |-> msg, tree |-> E.tree])],
             LAMBDA E1 : subscribe(E1, msg.path.path, UserCb(FreshCb(E1)), "u9"))
    ELSE IF cb.kind = "reply" THEN
        transmit(E, cb.ctx, Message("value", msg.path, msg.uuid, msg.value))
    ELSE transmit(E, cb.ctx, msg)

\* Datastore::get
get(E, path, callback, uuid) ==
    LET ns == parse_namespace(E, path)
        u  == TheUuid(E, uuid)
        E1 == WithUuid(E, uuid)
    IN IF ~Running(E) THEN E
       ELSE IF ns = <<>> THEN
            LET v == JsonValue(E1.tree, PathPointer(path), Null)
            IN IF IsErr(v) THEN Throw(E1, v.what)
               ELSE Invoke(E1, callback, Message("value", PathStr(path), u, v))
       ELSE LET msg == Message("get", PathStr(StripNamespace(path, ns)), u, Null)
                request == Request(msg, Ref(ns), <<>>, callback)
            IN Then([E1 EXCEPT !.requests = InsertRequest(@, u, request)],
                    LAMBDA E2 : transmit(E2, Ref(ns), msg))

\* the turn with the event carrying the value at the written path
FanOutOne_WrittenValue(E, path, sub) ==
    LET sub_path == sub.msg.path.path
    IN IF ~sub.remote.null \/ ~StartsWith(path, sub_path) THEN E
       ELSE Invoke(E, sub.callback,
                   Message("event", PathStr(sub_path), sub.msg.path.uuid,
                           GetChecked(E.tree, PathPointer(path))))

\* One turn of the loop of Datastore::set over m_subs, for the record sub
FanOutOne(E, path, sub) ==
    LET sub_path == sub.msg.path.path
    IN IF ~sub.remote.null \/ ~StartsWith(path, sub_path) THEN E
       ELSE Then(GetUnchecked(E.tree, sub.ptr, "read", Null),       \* m_local_data[sub.ptr]
                 LAMBDA t :
                     IF IsErr(t) THEN Throw(E, t.what)
                     ELSE Invoke([E EXCEPT !.tree = t], sub.callback,
                                 Message("event", PathStr(sub_path),
                                         sub.msg.path.uuid, GetChecked(t, sub.ptr))))

\* the loop walking m_subs from its end
RECURSIVE FanOut_Reverse(_, _, _)
FanOut_Reverse(E, path, i) ==
    IF ~Running(E) \/ i > Len(E.subs) THEN E
    ELSE Then(FanOutOne(E, path, E.subs[Len(E.subs) + 1 - i]),
              LAMBDA E1 : FanOut_Reverse(E1, path, i + 1))

\* The loop of Datastore::set over m_subs, from index i.  m_subs is a
\* std::vector: a push_back made by a callback either finds room (ub = "room":
\* the iterator stays valid and the loop reaches the new record, end() being
\* read on every turn) or reallocates, and the loop's iterator then points
\* into freed storage.
RECURSIVE FanOut(_, _, _)
FanOut(E, path, i) ==
    IF ~Running(E) \/ i > Len(E.subs) THEN E                \* it != m_subs.end()
    ELSE Then(FanOutOne(E, path, E.subs[i]), LAMBDA E1 :
              IF Len(E1.subs) # Len(E.subs) /\ E1.ub # "room"
              THEN [E1 EXCEPT !.crashed = TRUE]               \* ++it on freed storage
              ELSE FanOut(E1, path, i + 1))

\* set transmitting the path as given, namespace and dot included
set_Unpeeled(E, path, value, push) ==
    LET ns == parse_namespace(E, path)
    IN IF ~Running(E) THEN E
       ELSE IF ns = <<>> THEN
            Then(GetUnchecked(E.tree, PathPointer(path),
                              IF push THEN "push" ELSE "assign", value),
                 LAMBDA t : IF IsErr(t) THEN Throw(E, t.what)
                            ELSE FanOut([E EXCEPT !.tree = t], path, 1))
       ELSE transmit(E, Ref(ns),
                     Message(IF push THEN "push" ELSE "set", PathStr(path), "", value))

\* Datastore::set
set(E, path, value, push) ==
    LET ns == parse_namespace(E, path)
    IN IF ~Running(E) THEN E
       ELSE IF ns = <<>> THEN
            Then(GetUnchecked(E.tree, PathPointer(path),
                              IF push THEN "push" ELSE "assign", value),
                 LAMBDA t : IF IsErr(t) THEN Throw(E, t.what)
                            ELSE FanOut([E EXCEPT !.tree = t], path, 1))
       ELSE transmit(E, Ref(ns),
                     Message(IF push THEN "push" ELSE "set",
                             PathStr(StripNamespace(path, ns)), "", value))

\* count without the increment
Counted_Not(E) == E

\* count += 1
Counted(E) == [E EXCEPT !.ret = @ + 1]

\* The predicate of remove_if in Datastore::unsubscribe, applied to the
\* records from index i in order; keep collects the records that stay.
RECURSIVE RemoveIf(_, _, _, _, _, _)
RemoveIf(E, path, uuid, ns, i, keep) ==
    IF ~Running(E) THEN E
    ELSE IF i > Len(E.subs) THEN [E EXCEPT !.subs = keep]
    ELSE LET sub == E.subs[i]
             sub_path == sub.msg.path.path
             Keep == RemoveIf(E, path, uuid, ns, i + 1, Append(keep, sub))
             Drop(E1) == Then([E1 EXCEPT !.removed = Append(@, sub)],
                              LAMBDA E2 : RemoveIf(E2, path, uuid, ns, i + 1, keep))
             Count(E1) == Counted(E1)
         IN IF uuid # "" /\ uuid # sub.msg.uuid THEN Keep
            ELSE IF uuid # "" /\ path = <<>> THEN Drop(E)
            ELSE IF ns = <<>> THEN
                IF StartsWith(path, sub_path) THEN Drop(Count(E)) ELSE Keep
            ELSE IF ~sub.remote.null /\ StartsWith(path, ns \o <<".">> \o sub_path) THEN
                Drop(Count(transmit(E, sub.remote,
                                    Message("unsubscribe", sub.msg.path, sub.msg.uuid, Null))))
            ELSE Keep

\* Datastore::unsubscribe
unsubscribe(E, path, uuid) ==
    IF ~Running(E) THEN E
    ELSE RemoveIf(E, path, uuid, parse_namespace(E, path), 1, <<>>)

\* &m_remotes[name]: unordered_map::operator[] inserts a value-initialised
\* remote_t (empty name, null handler) when the key is absent
WithRemoteSlot(E, name) ==
    IF name \in DOMAIN E.remotes THEN E
    ELSE [E EXCEPT !.remotes = [x \in DOMAIN @ \cup {name} |->
                                  IF x = name THEN Remote(<<>>, 0) ELSE @[x]]]

\* the test on the name left out
RemoteNamed_Any(E, ref, name) == TRUE

\* sub.remote->name == name
RemoteNamed(E, ref, name) == E.remotes[ref.key].name = name

\* The loop of the "event" branch of Datastore::receive, from index i
RECURSIVE EventLoop(_, _, _, _)
EventLoop(E, msg, name, i) ==
    IF ~Running(E) \/ i > Len(E.subs) THEN E
    ELSE LET sub == E.subs[i]
         IN IF sub.remote.null THEN EventLoop(E, msg, name, i + 1)
            ELSE IF sub.remote.dangling THEN [E EXCEPT !.crashed = TRUE]
            ELSE IF ~RemoteNamed(E, sub.remote, name) THEN EventLoop(E, msg, name, i + 1)
            ELSE IF msg.path.k # "str" THEN Throw(E, "type_error")
            ELSE IF StartsWith(msg.path.path, sub.msg.path.path)
                 THEN Then(Invoke(E, sub.callback, msg),
                           LAMBDA E1 : EventLoop(E1, msg, name, i + 1))
                 ELSE EventLoop(E, msg, name, i + 1)

\* Datastore::receive
receive(E, msg, name) ==
    IF ~Running(E) THEN E
    ELSE IF msg.type \in {"set", "push"} THEN
        IF msg.path.k # "str" THEN Throw(E, "type_error")
        ELSE set(E, msg.path.path, msg.value, msg.type = "push")
    ELSE IF msg.type = "get" THEN
        IF msg.path.k # "str" THEN Throw(E, "type_error")
        ELSE Then(WithRemoteSlot(E, name),
                  LAMBDA E1 : get(E1, msg.path.path, ReplyCb(Ref(name)), msg.uuid))
    ELSE IF msg.type = "value" THEN
        IF msg.uuid \notin DOMAIN E.requests THEN E      \* out_of_range, caught
        ELSE LET request == E.requests[msg.uuid]
             IN Then(Invoke(E, request.callback, msg),
                     LAMBDA E1 : IF ~Running(E1) THEN E1
                                 ELSE [E1 EXCEPT !.requests = EraseRequest(@, msg.uuid)])
    ELSE IF msg.type = "event" THEN EventLoop(E, msg, name, 1)
    ELSE IF msg.type = "subscribe" THEN
        IF msg.path.k # "obj" THEN Throw(E, "type_error")
        ELSE Then(WithRemoteSlot(E, name),
                  LAMBDA E1 : subscribe(E1, msg.path.path,
                                        ForwardCb(Ref(name)), msg.path.uuid))
    ELSE IF msg.type = "unsubscribe" THEN
        IF msg.path.k = "str" THEN unsubscribe(E, msg.path.path, msg.uuid)
        ELSE IF msg.path.k = "obj" THEN unsubscribe(E, msg.path.path, msg.path.uuid)
        ELSE Throw(E, "type_error")
    ELSE E

\* attach keeping the record of a name already attached (insert, not assign)
attach_KeepFirst(E, name, handler) ==
    IF name \in DOMAIN E.remotes THEN E
    ELSE [E EXCEPT !.remotes = [x \in DOMAIN @ \cup {name} |->
                                  IF x = name THEN Remote(name, handler) ELSE @[x]]]

\* Datastore::attach
attach(E, name, handler) ==
    [E EXCEPT !.remotes = [x \in DOMAIN @ \cup {name} |->
                             IF x = name THEN Remote(name, handler) ELSE @[x]]]

\* Datastore::detach.  The erased node's memory is freed: every remote_t* that
\* pointed to it (in m_subs, in m_requests, in a lambda's ctx) dangles from here.
detach(E, name) ==
    IF name \notin DOMAIN E.remotes THEN E
    ELSE LET Free(ref) == IF ~ref.null /\ ~ref.dangling /\ ref.key = name
                          THEN [ref EXCEPT !.dangling = TRUE,
                                           !.stale = E.remotes[name].handler]
                          ELSE ref
             Mark(r) == [r EXCEPT !.remote = Free(@), !.callback.ctx = Free(@)]
         IN [E EXCEPT !.remotes = [x \in DOMAIN @ \ {name} |-> @[x]],
                      !.subs = [i \in 1..Len(@) |-> Mark(@[i])],
                      !.requests = [x \in DOMAIN @ |-> Mark(@[x])]]

----------------------------------------------------------------------------
(* Steps: one call into store s from outside (the embedding program, or    *)
(* the delivery of a message the peer's handler put on the wire).          *)

NoMsg == Message("", PathNull, "", Null)

Op(name, s, path, uuid, value, cb, msg, from) ==
    [op |-> name, store |-> s, path |-> path, uuid |-> uuid, value |-> value,
     cb |-> cb, msg |-> msg, from |-> from]

\* how often the callback of get call `id` ran in cs
Completions(cs, id) ==
    Cardinality({i \in 1..Len(cs) : cs[i].id = id /\ cs[i].msg.type = "value"})

\* every array of the tree holds at most MaxArr elements
RECURSIVE ArraysWithin(_)
ArraysWithin(j) ==
    IF j.t = "obj" THEN \A k \in DOMAIN j.m : ArraysWithin(j.m[k])
    ELSE IF j.t = "arr" THEN Len(j.a) <= MaxArr /\ \A i \in 1..Len(j.a) : ArraysWithin(j.a[i])
    ELSE TRUE

\* The state after the call: E's members go back to store s, each message handed
\* to a handler is appended to the peer's wire w.
CommitWithin(s, call, op, w, cap) ==
    \E E \in {call} :
    /\ Len(E.subs) <= cap
    /\ Cardinality(DOMAIN E.requests) <= MaxPending
    /\ Len(w[Peer(s)]) + Len(E.out) <= MaxWire
    /\ ArraysWithin(E.tree)
    /\ tree' = [tree EXCEPT ![s] = E.tree]
    /\ remotes' = [remotes EXCEPT ![s] = E.remotes]
    /\ requests' = [requests EXCEPT ![s] = E.requests]
    /\ subs' = [subs EXCEPT ![s] = E.subs]
    /\ wire' = [w EXCEPT ![Peer(s)] = @ \o [i \in 1..Len(E.out) |-> E.out[i].msg]]
    /\ crashed' = E.crashed
    /\ last' = [op |-> op, err |-> E.err, ret |-> E.ret, again |-> (op.op = "set" /\ op = last.op)]
    /\ calls' = E.calls
    /\ sent' = E.out
    /\ done' = [id \in CbIds |->
                 (IF op.op \in {"get", "subscribe"} /\ op.cb = id THEN 0 ELSE done[id])
                 + Completions(E.calls, id)]
    /\ gone' = (gone \ (IF op.op \in {"get", "subscribe"} THEN {op.cb} ELSE {}))
               \cup {E.removed[i].callback.id :
                       i \in {j \in 1..Len(E.removed) : E.removed[j].callback.kind = "user"}}

\* the same with registries of at most MaxSubs records
Commit(s, call, op, w) == CommitWithin(s, call, op, w, MaxSubs)

\* The callbacks the stores hold, and a callback none of them holds: every
\* get / subscribe call passes its own.
CbsInUse ==
    UNION { {subs[s][i].callback.id : i \in 1..Len(subs[s])}
            \cup {requests[s][u].callback.id : u \in DOMAIN requests[s]} : s \in Stores }
NewCb ==
    Then(CbsInUse, LAMBDA used :
        CHOOSE i \in CbIds : i \notin used /\ \A j \in 1..(i - 1) : j \in used)

\* store.get(path, cb, nullptr, uuid) with a callback of its own
Get(s, path, uuid) ==
    /\ ~crashed
    /\ \E E \in {Enter(s, "crash")}, cb \in {NewCb} :
          Commit(s, get(E, path, UserCb(cb), uuid),
                 Op("get", s, path, uuid, Null, cb, NoMsg, <<>>), wire)

\* store.set(path, value) / store.push(path, value)
Set(s, path, value, push) ==
    /\ ~crashed
    /\ \E E \in {Enter(s, "crash")} :
          Commit(s, set(E, path, value, push),
                 Op(IF push THEN "push" ELSE "set", s, path, "", value, 0, NoMsg, <<>>), wire)

\* store.subscribe(path, cb, nullptr, uuid) with a callback of its own
Subscribe(s, path, uuid) ==
    /\ ~crashed
    /\ \E E \in {Enter(s, "crash")}, cb \in {NewCb} :
          Commit(s, subscribe(E, path, UserCb(cb), uuid),
                 Op("subscribe", s, path, uuid, Null, cb, NoMsg, <<>>), wire)

\* store.unsubscribe(path, uuid)
Unsubscribe(s, path, uuid, ub) ==
    /\ ~crashed
    /\ \E E \in {Enter(s, ub)} :
          Commit(s, unsubscribe(E, path, uuid),
                 Op("unsubscribe", s, path, uuid, Null, 0, NoMsg, <<>>), wire)

\* store.attach(name, handler)
Attach(s, name, handler) ==
    /\ ~crashed
    /\ \E E \in {Enter(s, "crash")} :
          Commit(s, attach(E, name, handler),
                 Op("attach", s, name, "", Null, handler, NoMsg, <<>>), wire)

\* store.detach(name)
Detach(s, name) ==
    /\ ~crashed
    /\ \E E \in {Enter(s, "crash")} :
          Commit(s, detach(E, name),
                 Op("detach", s, name, "", Null, 0, NoMsg, <<>>), wire)

\* store.receive(msg, name)
Receive(s, msg, name, ub, w) ==
    /\ ~crashed
    /\ \E E \in {Enter(s, ub)} :
          Commit(s, receive(E, msg, name),
                 Op("receive", s, <<>>, "", Null, 0, msg, name), w)

\* a transport that hands over the newest message first
Deliver_Newest(s, ub) ==
    /\ wire[s] # <<>>
    /\ Receive(s, wire[s][Len(wire[s])], NameOf(Peer(s)), ub,
               [wire EXCEPT ![s] = SubSeq(@, 1, Len(@) - 1)])

\* The oldest message on the wire to s reaches s: the handler the peer attached
\* for s calls s.receive(msg, <the peer's name at s>)
Deliver(s, ub) ==
    /\ wire[s] # <<>>
    /\ Receive(s, Head(wire[s]), NameOf(Peer(s)), ub, [wire EXCEPT ![s] = Tail(@)])

----------------------------------------------------------------------------
(* Initial states *)

NoRemotes  == [k \in {} |-> Remote(<<>>, 0)]
NoRequests == [k \in {} |-> Request(NoMsg, NullRef, <<>>, UserCb(0))]

\* Datastore store;  (no remote attached)
InitWith(trees, rems) ==
    /\ tree = trees
    /\ remotes = rems
    /\ requests = [s \in Stores |-> NoRequests]
    /\ subs = [s \in Stores |-> <<>>]
    /\ wire = [s \in Stores |-> <<>>]
    /\ crashed = FALSE
    /\ last = [op |-> Op("init", "A", <<>>, "", Null, 0, NoMsg, <<>>), err |-> "", ret |-> 0,
               again |-> FALSE]
    /\ calls = <<>>
    /\ sent = <<>>
    /\ done = [id \in CbIds |-> 0]
    /\ gone = {}

----------------------------------------------------------------------------
(* Inputs of the specifications below *)

\* the paths "", "a", "ab", "a.b" and the remote paths "B", "Ba", "B.a", "B.a.b"
P_root == <<>>
P_a    == <<"a">>
P_ab   == <<"a", "b">>
P_a_b  == <<"a", ".", "b">>
P_B    == <<"B">>
P_Ba   == <<"B", "a">>
P_B_a  == <<"B", ".", "a">>
P_B_a_b == <<"B", ".", "a", ".", "b">>

\* uuid arguments: none (generate one) or the caller's "u1"
Uuids == { "", "u1" }

\* test_get_remote.cpp: each store attached at the other, under "A" and "B"
Attached(s) == [k \in {NameOf(Peer(s))} |-> Remote(NameOf(Peer(s)), 1)]
InitPair == InitWith([s \in Stores |-> EmptyObj], [s \in Stores |-> Attached(s)])

----------------------------------------------------------------------------
(* SpecTree: one store, nothing attached: get, set and push on local paths *)

TreePaths  == { P_root, P_a, P_ab, P_a_b }
TreeValues == { Num(1), Num(2), Null }

InitTree == InitWith([s \in Stores |-> EmptyObj], [s \in Stores |-> NoRemotes])

TreeGet  == \E p \in TreePaths : Get("A", p, "u1")
TreeSet  == \E p \in TreePaths, v \in TreeValues : Set("A", p, v, FALSE)
TreePush == \E p \in TreePaths, v \in TreeValues : Set("A", p, v, TRUE)

NextTree == TreeGet \/ TreeSet \/ TreePush
SpecTree == InitTree /\ [][NextTree]_vars

----------------------------------------------------------------------------
(* SpecSubs: one store, nothing attached: local subscriptions and writes   *)

SubsPaths  == { P_root, P_a, P_ab, P_a_b }
SubsWrites == { P_a, P_ab, P_a_b }

\* subscribe with a generated uuid on each path, and with the caller's on "a"
SubsSubscribe   == \/ \E p \in SubsPaths : Subscribe("A", p, "")
                   \/ Subscribe("A", P_a, "u1")
SubsUnsubscribe == \E p \in {P_a, P_a_b} : Unsubscribe("A", p, "", "crash")
SubsSet  == \E p \in SubsWrites : Set("A", p, Num(1), FALSE)
SubsPush == \E p \in {P_a, P_a_b} : Set("A", p, Num(2), TRUE)

NextSubs == SubsSubscribe \/ SubsUnsubscribe \/ SubsSet \/ SubsPush
SpecSubs == InitTree /\ [][NextSubs]_vars

----------------------------------------------------------------------------
(* SpecGet: A and B attached to each other; A gets from B while B writes   *)

GetPaths   == { P_B_a }
GetWrites  == { P_a }
GetValues  == { Num(1) }
\* a value message that B did not send
Strays     == { Message("value", PathStr(P_a), "u1", Null) }

PairGet    == \E p \in GetPaths, u \in Uuids : Get("A", p, u)
PairWrite  == \E p \in GetWrites, v \in GetValues : Set("B", p, v, FALSE)
PairStray  == \E m \in Strays : Receive("A", m, NameOf("B"), "crash", wire)
DeliverA   == Deliver("A", "crash")
DeliverB   == Deliver("B", "crash")

NextGet == PairGet \/ PairWrite \/ PairStray \/ DeliverA \/ DeliverB
SpecGet == InitPair /\ [][NextGet]_vars

\* the same with writes to the root of B, every transmitted message being
\* eventually delivered to the peer's receive
PairRootWrite == Set("B", P_root, Num(1), FALSE)

\* SpecGet with every transmitted message eventually delivered
FairPair == SpecGet /\ WF_vars(DeliverA) /\ WF_vars(DeliverB)

NextRound == PairGet \/ PairWrite \/ PairRootWrite \/ DeliverA \/ DeliverB
FairGet == InitPair /\ [][NextRound]_vars /\ WF_vars(DeliverA) /\ WF_vars(DeliverB)

----------------------------------------------------------------------------
(* SpecUnsub: A and B attached to each other; A subscribes to and            *)
(* unsubscribes from a local path and a path of B, while both stores write *)

UnsubPaths == { P_a, P_B_a }

UnsubSubscribe   == \E p \in UnsubPaths : Subscribe("A", p, "u1")
UnsubUnsubscribe == \E p \in UnsubPaths, u \in Uuids : Unsubscribe("A", p, u, "crash")
UnsubSetA == Set("A", P_a, Num(1), FALSE)
UnsubSetB == Set("B", P_a, Num(1), FALSE)

NextUnsub == UnsubSubscribe \/ UnsubUnsubscribe \/ UnsubSetA \/ UnsubSetB
             \/ DeliverA \/ DeliverB
SpecUnsub == InitPair /\ [][NextUnsub]_vars

----------------------------------------------------------------------------
(* SpecEvents: A and B attached to each other; A subscribes to "B.a" and   *)
(* never unsubscribes; B writes, A writes to B; every message is delivered *)

EventWrites == { P_a, P_ab }

EventSubscribe == \E u \in Uuids : Subscribe("A", P_B_a, u)
EventSetB == \E p \in EventWrites : Set("B", p, Num(1), FALSE)
EventSetA == Set("A", P_B_a, Num(2), FALSE)

NextEvents == EventSubscribe \/ EventSetB \/ EventSetA \/ DeliverA \/ DeliverB
SpecEvents == InitPair /\ [][NextEvents]_vars
FairEvents == SpecEvents /\ WF_vars(DeliverA) /\ WF_vars(DeliverB)

----------------------------------------------------------------------------
(* SpecReg: store A attaches and detaches "B" and operates on local and on *)
(* remote-looking paths; a subscribe message arrives under the name "B"    *)

\* the bare name "B", the name without a dot "Ba", the name and a dot "B.a"
RegPaths == { P_B, P_Ba, P_B_a }
RegSome  == { P_B_a }

InitReg == InitWith([s \in Stores |-> EmptyObj], [s \in Stores |-> NoRemotes])

RegAttach    == Attach("A", NameOf("B"), 1)
RegDetach    == Detach("A", NameOf("B"))
RegGet       == \E p \in RegPaths : Get("A", p, "u1")
RegSet       == \E p \in RegPaths : Set("A", p, Num(1), FALSE)
RegPush      == \E p \in RegSome : Set("A", p, Num(1), TRUE)
RegSubscribe == \E p \in RegSome : Subscribe("A", p, "")
RegInbound   == Receive("A", Message("subscribe", PathObj(P_a, "u2"), "", Null),
                        NameOf("B"), "crash", wire)

NextReg == RegAttach \/ RegDetach \/ RegGet \/ RegSet \/ RegPush \/ RegSubscribe
           \/ RegInbound
SpecReg == InitReg /\ [][NextReg]_vars

----------------------------------------------------------------------------
(* SpecWrite: A and B attached to each other; A, holding subscriptions on  *)
(* its own root, sets and pushes on paths of B; B receives and reads       *)

WritePaths  == { P_B_a, P_B_a_b }
WriteValues == { Num(1), Num(2) }

WriteSubscribe == Subscribe("A", P_root, "u1")
WriteRemote    == \E p \in WritePaths, v \in WriteValues, push \in BOOLEAN : Set("A", p, v, push)
WriteRead      == \E p \in {P_a, P_a_b} : Get("B", p, "u1")

NextWrite == WriteSubscribe \/ WriteRemote \/ WriteRead \/ DeliverB
SpecWrite == InitPair /\ [][NextWrite]_vars

----------------------------------------------------------------------------
(* SpecAttach: A and B attached to each other; A attaches "B" again with   *)
(* the first or with a second handler, between gets, sets, subscriptions   *)
(* and inbound get and subscribe messages.  What the handlers do with the  *)
(* messages is left open: they stay on the wire.                           *)

Handlers == { 1, 2 }

\* a subscribe and a get message of B for A's path "a"
AttachInbound == { Message("subscribe", PathObj(P_a, "u2"), "", Null),
                   Message("get", PathStr(P_a), "u3", Null) }

ReAttach       == \E h \in Handlers : Attach("A", NameOf("B"), h)
AttGet         == Get("A", P_B_a, "u1")
\* the subscription with the caller's uuid is made under the first handler
AttSubscribe   == \/ Subscribe("A", P_B_a, "u4")
                  \/ /\ remotes["A"][NameOf("B")].handler = 1
                     /\ Subscribe("A", P_B_a, "u1")
AttUnsubscribe == Unsubscribe("A", P_B_a, "", "crash")
AttSet         == \E p \in {P_a, P_B_a} : Set("A", p, Num(1), FALSE)
AttReceive     == \E m \in AttachInbound : Receive("A", m, NameOf("B"), "crash", wire)

NextAttach == ReAttach \/ AttGet \/ AttSubscribe \/ AttUnsubscribe \/ AttSet
              \/ AttReceive
SpecAttach == InitPair /\ [][NextAttach]_vars

----------------------------------------------------------------------------
(* SpecPush: one store, nothing attached: pushes of two values on "a" and  *)
(* "a.b", with subscriptions on the root and on "a" and sets of "a"        *)

PushValues == { Num(1), Num(2) }

PushSubscribe == \E p \in {P_root, P_a} : Subscribe("A", p, "u1")
PushPush      == \E p \in {P_a, P_a_b}, v \in PushValues : Set("A", p, v, TRUE)
PushSet       == \E v \in {Num(1), Null} : Set("A", P_a, v, FALSE)

NextPush == PushSubscribe \/ PushPush \/ PushSet
SpecPush == InitTree /\ [][NextPush]_vars

----------------------------------------------------------------------------
(* SpecLoop: A and B attached to each other with the handlers of           *)
(* test_remote_get.cpp, which call the peer's receive before they return:  *)
(* a get of A on a path of B runs B's receive, and B's reply runs A's      *)
(* receive, inside A's call of the handler.  W holds both stores: W.a, W.b *)

\* the handler attached at B for "A": store_a->receive(msg, "store_b")
HandlerA(W, msg) ==
    IF ~Running(W.a) THEN W
    ELSE [W EXCEPT !.a = receive(@, msg, NameOf("B"))]

\* B's handler called for each message B's receive transmitted, in order
RECURSIVE Replies(_, _, _)
Replies(W, out, i) ==
    IF i > Len(out) THEN W
    ELSE Then(HandlerA(W, out[i].msg), LAMBDA W1 : Replies(W1, out, i + 1))

\* the handler attached at A for "B": store_b->receive(msg, "store_a"); an
\* exception that leaves B's receive leaves the handler and A's call too
HandlerB(W, msg) ==
    Then(receive(W.b, msg, NameOf("A")), LAMBDA EB :
        IF EB.crashed THEN [W EXCEPT !.b = EB, !.a.crashed = TRUE]
        ELSE IF EB.err # "" THEN [W EXCEPT !.b = [EB EXCEPT !.err = ""], !.a.err = EB.err]
        ELSE Replies([W EXCEPT !.b = EB], EB.out, 1))

\* transmit(request.remote, request.msg) of A with that handler
SyncTransmit(W, ref, msg) ==
    Then(transmit(W.a, ref, msg), LAMBDA EA :
        IF ~Running(EA) THEN [W EXCEPT !.a = EA]
        ELSE HandlerB([W EXCEPT !.a = EA], msg))

\* m_requests.insert(std::make_pair(request.msg.uuid, request))
Record(W, u, request) == [W EXCEPT !.a.requests = InsertRequest(@, u, request)]

\* the get handing the message to the handler before it records the request
SyncGet_SendFirst(W, path, callback, uuid) ==
    LET ns  == parse_namespace(W.a, path)
        u   == TheUuid(W.a, uuid)
        msg == Message("get", PathStr(StripNamespace(path, ns)), u, Null)
        request == Request(msg, Ref(ns), <<>>, callback)
    IN IF ns = <<>> THEN [W EXCEPT !.a = get(@, path, callback, uuid)]
       ELSE Then(SyncTransmit([W EXCEPT !.a = WithUuid(@, uuid)], Ref(ns), msg),
                 LAMBDA W1 : IF Running(W1.a) THEN Record(W1, u, request) ELSE W1)

\* Datastore::get of A on both stores
SyncGet(W, path, callback, uuid) ==
    LET ns  == parse_namespace(W.a, path)
        u   == TheUuid(W.a, uuid)
        msg == Message("get", PathStr(StripNamespace(path, ns)), u, Null)
        request == Request(msg, Ref(ns), <<>>, callback)
    IN IF ns = <<>> THEN [W EXCEPT !.a = get(@, path, callback, uuid)]
       ELSE Then(Record([W EXCEPT !.a = WithUuid(@, uuid)], u, request),
                 LAMBDA W1 : SyncTransmit(W1, Ref(ns), msg))

\* store_a->get(path, cb, nullptr, uuid); sent' lists the messages handed to
\* A's handler and then those handed to B's
LoopGet(path, uuid) ==
    /\ ~crashed
    /\ \E W0 \in {[a |-> Enter("A", "crash"), b |-> Enter("B", "crash")]}, cb \in {NewCb} :
       \E W \in {SyncGet(W0, path, UserCb(cb), uuid)} :
          /\ Cardinality(DOMAIN W.a.requests) <= MaxPending
          /\ tree' = [A |-> W.a.tree, B |-> W.b.tree]
          /\ remotes' = [A |-> W.a.remotes, B |-> W.b.remotes]
          /\ requests' = [A |-> W.a.requests, B |-> W.b.requests]
          /\ subs' = [A |-> W.a.subs, B |-> W.b.subs]
          /\ wire' = wire
          /\ crashed' = W.a.crashed
          /\ last' = [op |-> Op("get", "A", path, uuid, Null, cb, NoMsg, <<>>),
                      err |-> W.a.err, ret |-> 0, again |-> FALSE]
          /\ calls' = W.a.calls
          /\ sent' = W.a.out \o W.b.out
          /\ done' = [id \in CbIds |-> (IF id = cb THEN 0 ELSE done[id])
                                       + Completions(W.a.calls, id)]
          /\ gone' = gone \ {cb}

LoopPaths  == { P_B_a, P_B_a_b }
LoopWrites == { P_root, P_a, P_a_b }
LoopValues == { Num(1), Num(2), Null }

LoopRead  == \E p \in LoopPaths, u \in Uuids : LoopGet(p, u)
LoopWrite == \E p \in LoopWrites, v \in LoopValues : Set("B", p, v, FALSE)

NextLoop == LoopRead \/ LoopWrite
SpecLoop == InitPair /\ [][NextLoop]_vars

----------------------------------------------------------------------------
(* SpecInbound: A with two remotes attached, "B" and "C", and              *)
(* subscriptions on a local path and on paths of both; A writes locally,   *)
(* gets from B, and event and value messages arrive under either name.     *)
(* What the handlers do with A's messages is left open: they stay on the   *)
(* wire.                                                                   *)

P_C_a == <<"C", ".", "a">>

InitInbound ==
    InitWith([s \in Stores |-> EmptyObj],
             [s \in Stores |-> IF s = "A"
                               THEN [k \in {NameOf("B"), NameOf("C")} |-> Remote(k, 1)]
                               ELSE Attached(s)])

InboundPaths  == { P_a, P_ab }
InboundEvents == { Message("event", PathStr(p), "u1", v) :
                       p \in InboundPaths, v \in {Num(1), Num(2)} }

InboundSubscribe == \E p \in {P_a, P_B_a, P_C_a} : Subscribe("A", p, "u1")
InboundEvent     == \E m \in InboundEvents, n \in {NameOf("B"), NameOf("C")} :
                        Receive("A", m, n, "crash", wire)

InboundSet       == Set("A", P_a, Num(1), FALSE)
\* a get of A on a path of B, and a value message under its uuid from either name
InboundGet       == Get("A", P_B_a, "u1")
InboundValue     == \E n \in {NameOf("B"), NameOf("C")} :
                        Receive("A", Message("value", PathStr(P_a), "u1", Num(1)), n,
                                "crash", wire)

NextInbound == InboundSubscribe \/ InboundEvent \/ InboundSet \/ InboundGet
               \/ InboundValue
SpecInbound == InitInbound /\ [][NextInbound]_vars

----------------------------------------------------------------------------
(* SpecFan: A and B attached to each other; A subscribes to paths of B,    *)
(* its subscribe messages are delivered to B, and B writes with the        *)
(* handler of test_sub_remote.cpp attached for "A", which calls A's        *)
(* receive before it returns: one step holds the write and every event it  *)
(* makes A receive.                                                        *)

\* store_b->set(path, value) on both stores.  A's user callbacks only take
\* the event and never call into B, so running A's receive for each message
\* after B's loop gives the states that running it inside the loop gives.
SyncSet(W, path, value) ==
    Then(set(W.b, path, value, FALSE), LAMBDA EB :
        IF ~Running(EB) THEN [W EXCEPT !.b = EB]
        ELSE Replies([W EXCEPT !.b = EB], EB.out, 1))

\* the step of store_b->set(path, value); calls' lists the callbacks run on B
\* and then those run on A
FanSet(path, value) ==
    /\ ~crashed
    /\ \E W0 \in {[a |-> Enter("A", "crash"), b |-> Enter("B", "crash")]} :
       \E W \in {SyncSet(W0, path, value)} :
          /\ ArraysWithin(W.b.tree)
          /\ tree' = [A |-> W.a.tree, B |-> W.b.tree]
          /\ remotes' = [A |-> W.a.remotes, B |-> W.b.remotes]
          /\ requests' = [A |-> W.a.requests, B |-> W.b.requests]
          /\ subs' = [A |-> W.a.subs, B |-> W.b.subs]
          /\ wire' = wire
          /\ crashed' = (W.a.crashed \/ W.b.crashed)
          /\ last' = [op |-> Op("set", "B", path, "", value, 0, NoMsg, <<>>),
                      err |-> IF W.b.err # "" THEN W.b.err ELSE W.a.err, ret |-> 0,
                      again |-> FALSE]
          /\ calls' = W.b.calls \o W.a.calls
          /\ sent' = W.b.out \o W.a.out
          /\ done' = [id \in CbIds |-> done[id] + Completions(W.a.calls, id)]
          /\ gone' = gone

P_B_ab == <<"B", ".", "a", "b">>

FanPaths  == { P_B_a, P_B_ab }
FanWrites == { P_a, P_ab, P_a_b }

FanSubscribe == \E p \in FanPaths, u \in Uuids : Subscribe("A", p, u)
FanWrite     == \E p \in FanWrites, v \in {Num(1), Num(2)} : FanSet(p, v)

NextFan == FanSubscribe \/ DeliverB \/ FanWrite
SpecFan == InitPair /\ [][NextFan]_vars

----------------------------------------------------------------------------
(* FairFifo: A and B attached to each other over transports that deliver   *)
(* in order; A sets and gets "B.a", B writes only at another path, "ab";   *)
(* every transmitted message is eventually delivered.                      *)

FifoValues == { Num(1), Num(2) }

FifoSet   == \E v \in FifoValues : Set("A", P_B_a, v, FALSE)
FifoGet   == Get("A", P_B_a, "")
FifoOther == Set("B", P_ab, Num(1), FALSE)

NextFifo == FifoSet \/ FifoGet \/ FifoOther \/ DeliverA \/ DeliverB
SpecFifo == InitPair /\ [][NextFifo]_vars
FairFifo == SpecFifo /\ WF_vars(DeliverA) /\ WF_vars(DeliverB)

----------------------------------------------------------------------------
(* SpecOrder: one store, nothing attached, with a registry of up to        *)
(* MaxSubs + 1 records: subscriptions at "a", "ab" and "a.b", unsubscribe  *)
(* at "a", writes at "ab" and "a.b"                                        *)

OrderPaths == { P_a, P_ab, P_a_b }

OrderSubscribe ==
    /\ ~crashed
    /\ \E p \in OrderPaths, E \in {Enter("A", "crash")}, cb \in {NewCb} :
          CommitWithin("A", subscribe(E, p, UserCb(cb), "u1"),
                       Op("subscribe", "A", p, "u1", Null, cb, NoMsg, <<>>), wire, MaxSubs + 1)
OrderUnsubscribe ==
    /\ ~crashed
    /\ \E E \in {Enter("A", "crash")} :
          CommitWithin("A", unsubscribe(E, P_a, ""),
                       Op("unsubscribe", "A", P_a, "", Null, 0, NoMsg, <<>>), wire, MaxSubs + 1)
OrderSet ==
    /\ ~crashed
    /\ \E p \in {P_ab, P_a_b}, E \in {Enter("A", "crash")} :
          CommitWithin("A", set(E, p, Num(1), FALSE),
                       Op("set", "A", p, "", Num(1), 0, NoMsg, <<>>), wire, MaxSubs + 1)

NextOrder == OrderSubscribe \/ OrderUnsubscribe \/ OrderSet
SpecOrder == InitTree /\ [][NextOrder]_vars

----------------------------------------------------------------------------
(* SpecReenter: one store, nothing attached, with a registry of up to      *)
(* MaxSubs + 1 records; some callbacks subscribe again when they are       *)
(* called, and the vector may or may not have room for the new record      *)

ReenterPaths == { P_root, P_a }

ReenterSubscribe ==
    /\ ~crashed
    /\ \E p \in ReenterPaths, E \in {Enter("A", "crash")}, cb \in {NewCb} :
       \E callback \in {UserCb(cb), ResubCb(cb)} :
          CommitWithin("A", subscribe(E, p, callback, "u1"),
                       Op("subscribe", "A", p, "u1", Null, cb, NoMsg, <<>>), wire, MaxSubs + 1)
ReenterSet ==
    /\ ~crashed
    /\ \E p \in {P_a, P_ab}, ub \in {"crash", "room"} :
       \E E \in {Enter("A", ub)} :
          CommitWithin("A", set(E, p, Num(1), FALSE),
                       Op("set", "A", p, "", Num(1), 0, NoMsg, <<>>), wire, MaxSubs + 1)

NextReenter == ReenterSubscribe \/ ReenterSet
SpecReenter == InitTree /\ [][NextReenter]_vars

----------------------------------------------------------------------------
(* Properties.  The words of a path are its dot-separated segments.        *)

RECURSIVE Segments(_)
Segments(path) ==
    IF path = <<>> THEN <<>>
    ELSE LET dots == {i \in 1..Len(path) : path[i] = "."}
         IN IF dots = {} THEN <<path>>
            ELSE LET d == CHOOSE i \in dots : \A j \in dots : i <= j
                 IN <<SubSeq(path, 1, d - 1)>> \o
                    (IF d = Len(path) THEN <<<<>>>> ELSE Segments(SubSeq(path, d + 1, Len(path))))

\* q is a proper ancestor of p: the root, or p continues q with a dot
IsAncestor(q, p) == q # p /\ (q = <<>> \/ StartsWith(p, q \o <<".">>))

\* the structure j holds v at the end of the chain of keys
RECURSIVE HoldsAt(_, _, _)
HoldsAt(j, keys, v) ==
    IF keys = <<>> THEN j = v
    ELSE /\ j.t = "obj"
         /\ Head(keys) \in DOMAIN j.m
         /\ HoldsAt(j.m[Head(keys)], Tail(keys), v)

\* the value a reader finds at a path: null when nothing is there
RECURSIVE Lookup(_, _)
Lookup(j, keys) ==
    IF keys = <<>> THEN j
    ELSE IF j.t = "obj" /\ Head(keys) \in DOMAIN j.m THEN Lookup(j.m[Head(keys)], Tail(keys))
    ELSE Null

\* p' begins with p (as strings)
BeginsWith(q, p) == Len(p) <= Len(q) /\ \A i \in 1..Len(p) : q[i] = p[i]

\* the step just taken was store s receiving a message of the given type
Received(l, type) == l.op.op = "receive" /\ l.op.msg.type = type

\* C1: when receive gets a value message whose uuid keys a pending request, it
\* invokes that request's callback exactly once with the received message and
\* removes exactly that entry, every other pending request staying as it was;
\* and the callback of a remote get runs only inside such a receive.
C1_ValueReply ==
    [][ LET s   == last'.op.store
            msg == last'.op.msg
            hit == Received(last', "value") /\ msg.uuid \in DOMAIN requests[s]
        IN /\ hit => /\ Len(calls') = 1
                      /\ calls'[1].id = requests[s][msg.uuid].callback.id
                      /\ calls'[1].msg = msg
                      /\ DOMAIN requests'[s] = DOMAIN requests[s] \ {msg.uuid}
                      /\ \A u \in DOMAIN requests'[s] : requests'[s][u] = requests[s][u]
           /\ (\E i \in 1..Len(calls') : calls'[i].msg.type = "value") => hit ]_vars

\* a reply completed one of two pending requests of A; the other is still pending
C1_Witness ==
    /\ Received(last, "value") /\ last.op.store = "A"
    /\ Len(calls) = 1 /\ calls[1].msg = last.op.msg
    /\ Cardinality(DOMAIN requests["A"]) = 1
    /\ last.op.msg.uuid \notin DOMAIN requests["A"]

\* C2: a value message whose uuid has no pending request invokes no callback,
\* transmits nothing, raises nothing, and leaves the request table, the tree
\* and the subscriptions unchanged; no get callback ever runs more than once.
C2_UnknownUuid ==
    [][ LET s   == last'.op.store
            msg == last'.op.msg
        IN /\ (Received(last', "value") /\ msg.uuid \notin DOMAIN requests[s])
              => /\ calls' = <<>> /\ sent' = <<>> /\ last'.err = "" /\ ~crashed'
                 /\ requests' = requests /\ tree' = tree /\ subs' = subs
           /\ \A id \in CbIds : done'[id] <= 1 ]_vars

\* a second value message for a request that an earlier one completed
C2_Witness ==
    /\ Received(last, "value") /\ last.op.store = "A" /\ calls = <<>>
    /\ last.op.msg.uuid = "u1"
    /\ \E id \in CbIds : done[id] = 1

\* C3: with A and B attached to each other and every message delivered, a get
\* of A on a path of B whose request A recorded leads to its callback having
\* run exactly once, A holding no request for it any more.
C3_RemoteGet ==
    \A c \in 1..(MaxPending + 1) :
        ( /\ last.op.op = "get" /\ last.op.store = "A" /\ last.op.cb = c
          /\ \E u \in DOMAIN requests["A"] : requests["A"][u].callback.id = c )
        ~> ( /\ done[c] = 1
             /\ \A u \in DOMAIN requests["A"] : requests["A"][u].callback.id # c )

\* C4: every local set or push at a path that begins with the path p of a local
\* subscription invokes that subscription's callback within the call, with an
\* event whose path is p, whose uuid is the subscription's and whose value is
\* the value the tree holds at p (read after the write, when the callback is
\* invoked), not the value at the written path.
C4_LocalEvent ==
    [][ LET s == last'.op.store
        IN (last'.op.op \in {"set", "push"} /\ last'.err = "")
           => \A i \in 1..Len(subs[s]) :
                LET sub == subs[s][i]
                    p   == sub.msg.path.path
                IN (sub.remote.null /\ BeginsWith(last'.op.path, p))
                   => \E j \in 1..Len(calls') :
                        /\ calls'[j].id = sub.callback.id
                        /\ calls'[j].msg = Message("event", PathStr(p), sub.msg.path.uuid,
                                                   Lookup(calls'[j].tree, Segments(p)))
                        /\ HoldsAt(calls'[j].tree, Segments(last'.op.path),
                                   Lookup(tree'[s], Segments(last'.op.path))) ]_vars

\* subscribe("a", cb, "u1"), then set("a.b", 1): cb got {"b": 1}, the value at "a"
C4_Witness ==
    /\ last.op.op = "set" /\ last.op.path = P_a_b /\ last.err = ""
    /\ \E j \in 1..Len(calls) :
          calls[j].msg = Message("event", PathStr(P_a), "u1",
                                 Obj([k \in {<<"b">>} |-> Num(1)]))

\* C5: unsubscribe returns exactly the number of records it removed from the
\* registry, and no later set or inbound event invokes the callback of a
\* removed subscription.
C5_UnsubscribeCount ==
    [][ LET s == last'.op.store
        IN /\ (last'.op.op = "unsubscribe" /\ last'.err = "" /\ ~crashed')
              => last'.ret = Len(subs[s]) - Len(subs'[s])
           /\ \A j \in 1..Len(calls') : calls'[j].id \notin gone ]_vars

\* A unsubscribed one of its two subscriptions on "B.a"; an event from B then
\* ran the callback of the one that is left
C5_Witness ==
    /\ Received(last, "event") /\ last.op.store = "A"
    /\ gone # {} /\ Len(calls) = 1 /\ Len(subs["A"]) = 1

\* C6: once B's receive has processed the unsubscribe message A sent for its
\* subscription on a path of B, B holds no subscription that forwards to A
\* under that subscription's uuid.
C6_UnsubscribeRouted ==
    [][ (Received(last', "unsubscribe") /\ last'.op.store = "B" /\ last'.op.msg.path.k = "obj")
        => \A i \in 1..Len(subs'["B"]) :
              ~( /\ subs'["B"][i].callback.kind = "forward"
                 /\ subs'["B"][i].msg.path.uuid = last'.op.msg.path.uuid ) ]_vars

\* the write the most recent step made on B: B's own set, or a set message received
WroteOnB(path) ==
    /\ last.op.store = "B" /\ last.err = ""
    /\ \/ last.op.op = "set" /\ last.op.path = path
       \/ Received(last, "set") /\ last.op.msg.path.path = path

\* C7: once B has A's subscription on "B.a" (A's i-th record, with its uuid
\* and callback), every write on B at a path beginning with "a", B's own or
\* one A sent, leads to that callback being invoked on A with an event for "a"
\* that carries the subscription's uuid and the value B held at "a" after the
\* write.
C7_RemoteEvent ==
    \A i \in 1..MaxSubs : \A v \in {Null, Num(1), Num(2)} :
        ( /\ \E w \in EventWrites : WroteOnB(w) /\ BeginsWith(w, P_a)
          /\ Lookup(tree["B"], <<P_a>>) = v
          /\ i <= Len(subs["A"]) /\ ~subs["A"][i].remote.null
          /\ \E k \in 1..Len(subs["B"]) :
                /\ subs["B"][k].callback.kind = "forward"
                /\ subs["B"][k].msg.path.uuid = subs["A"][i].msg.path.uuid )
        ~> ( /\ i <= Len(subs["A"])
             /\ \E j \in 1..Len(calls) :
                   /\ calls[j].id = subs["A"][i].callback.id
                   /\ calls[j].msg = Message("event", PathStr(P_a),
                                             subs["A"][i].msg.path.uuid, v) )

\* A's callback got the event for the set A itself sent to B
C7_Witness ==
    /\ Received(last, "event") /\ last.op.store = "A"
    /\ \E j \in 1..Len(calls) : calls[j].msg = Message("event", PathStr(P_a), "u1", Num(2))

\* a remote that attach registered (attach takes a non-null handler)
IsAttached(s, r) == r \in DOMAIN remotes[s] /\ remotes[s][r].handler # 0

\* C8: get, set, push and subscribe on a path are routed to remote r exactly
\* when r is attached and the path begins with r + "."; the one message handed
\* to r's handler carries the path without r and that dot, and the local tree
\* is untouched.  Any other path is handled locally and nothing is transmitted.
C8_Routing ==
    [][ LET s == last'.op.store
            p == last'.op.path
            r == NameOf("B")
        IN (s = "A" /\ last'.op.op \in {"get", "set", "push", "subscribe"})
           => IF IsAttached(s, r) /\ BeginsWith(p, r \o <<".">>)
              THEN /\ Len(sent') = 1 /\ sent'[1].to = r
                   /\ r \o <<".">> \o sent'[1].msg.path.path = p
                   /\ tree' = tree /\ calls' = <<>>
              ELSE /\ sent' = <<>> /\ ~crashed'
                   /\ last'.op.op = "set" /\ last'.err = ""
                      => Lookup(tree'[s], Segments(p)) = last'.op.value
                   /\ last'.op.op = "get" /\ last'.err = "" => Len(calls') = 1
                   /\ last'.op.op = "subscribe"
                      => /\ Len(subs'[s]) = Len(subs[s]) + 1
                         /\ subs'[s][Len(subs'[s])].remote.null ]_vars

\* C9: for any local path p and value v, after set(p, v) completes without
\* error, a subsequent get(p, cb) invokes cb (once) with a value equal to v.
C9_SetThenGet ==
    [][ ( /\ last.op.op = "set" /\ last.err = ""
          /\ last'.op.op = "get" /\ last'.op.store = last.op.store
          /\ last'.op.path = last.op.path )
        => ( Len(calls') = 1 /\ calls'[1].msg.value = last.op.value ) ]_vars

\* C10: local set autovivifies: after a set(p, v) that completes, get on any
\* ancestor path q of p (the root "" included) yields a structure that holds v
\* at the sub-path of p relative to q.
C10_Autovivify ==
    [][ ( /\ last.op.op = "set" /\ last.err = ""
          /\ last'.op.op = "get" /\ last'.op.store = last.op.store
          /\ IsAncestor(last'.op.path, last.op.path) )
        => ( /\ last'.err = ""
             /\ Len(calls') = 1
             /\ HoldsAt(calls'[1].msg.value,
                        SubSeq(Segments(last.op.path),
                               Len(Segments(last'.op.path)) + 1, Len(Segments(last.op.path))),
                        last.op.value) ) ]_vars

\* set("a.b", 1) on the empty store created "a"; get("") then yields {"a": {"b": 1}}
C10_Witness ==
    /\ last.op.op = "get" /\ last.op.path = P_root /\ Len(calls) = 1
    /\ calls[1].msg.value = Obj([k \in {<<"a">>} |-> Obj([x \in {<<"b">>} |-> Num(1)])])

\* the tree holds no value at the chain of keys: a key is missing, or the chain
\* passes through a missing or scalar (number, null) intermediate
RECURSIVE NoValueAt(_, _)
NoValueAt(j, keys) ==
    /\ keys # <<>>
    /\ IF j.t = "obj"
       THEN Head(keys) \notin DOMAIN j.m \/ NoValueAt(j.m[Head(keys)], Tail(keys))
       ELSE j.t \in {"num", "null"}

\* C11: get on a local path that holds no value invokes the callback (once)
\* with value null, raises no error and leaves the tree unchanged.
C11_AbsentGet ==
    [][ ( /\ last'.op.op = "get" /\ last'.op.store = "A"
          /\ NoValueAt(tree["A"], Segments(last'.op.path)) )
        => ( /\ last'.err = ""
             /\ Len(calls') = 1 /\ calls'[1].msg.value = Null
             /\ tree' = tree ) ]_vars


\* C12: a get on a local path invokes its callback exactly once, before get
\* returns, with a value message carrying the requested path and the supplied
\* uuid; it transmits nothing, adds no request and changes neither the tree
\* nor the subscription registry.
C12_LocalGetFrame ==
    [][ ( /\ last'.op.op = "get" /\ last'.op.store = "A"
          /\ parse_namespace(Enter("A", "crash"), last'.op.path) = <<>> )
        => ( /\ last'.err = ""
             /\ Len(calls') = 1
             /\ calls'[1].id = last'.op.cb
             /\ calls'[1].msg.type = "value"
             /\ calls'[1].msg.path = PathStr(last'.op.path)
             /\ (last'.op.uuid # "" => calls'[1].msg.uuid = last'.op.uuid)
             /\ sent' = <<>> /\ wire' = wire
             /\ requests' = requests /\ tree' = tree /\ subs' = subs ) ]_vars


\* the value a push of v leaves at the chain of keys: an array ending in v
EndsWith(j, v) == j.t = "arr" /\ j.a # <<>> /\ j.a[Len(j.a)] = v

\* C13: a set or push of A on a path of B hands B's handler exactly one set or
\* push message with the path without "B." and the value and no uuid, leaves
\* A's tree, requests and subscriptions as they were and runs no callback of
\* A.  When B's receive has processed the message without a tree error, B's
\* tree holds the value at that path (for push: as the last element of the
\* array there), and a get of B on that path right after yields it.
C13_RemoteSet ==
    [][ LET p == last'.op.path
            m == last'.op.msg
            q == last.op.msg.path.path
        IN /\ (last'.op.store = "A" /\ last'.op.op \in {"set", "push"})
              => /\ Len(sent') = 1 /\ sent'[1].to = NameOf("B")
                 /\ sent'[1].msg = Message(last'.op.op, PathStr(SubSeq(p, 3, Len(p))),
                                           "", last'.op.value)
                 /\ NameOf("B") \o <<".">> \o sent'[1].msg.path.path = p
                 /\ tree'["A"] = tree["A"] /\ requests' = requests /\ subs' = subs
                 /\ calls' = <<>> /\ last'.err = "" /\ ~crashed'
           /\ (last'.op.store = "B" /\ Received(last', "set") /\ last'.err = "")
              => Lookup(tree'["B"], Segments(m.path.path)) = m.value
           /\ (last'.op.store = "B" /\ Received(last', "push") /\ last'.err = "")
              => EndsWith(Lookup(tree'["B"], Segments(m.path.path)), m.value)
           /\ ( /\ last.op.store = "B" /\ last.err = ""
                /\ (Received(last, "set") \/ Received(last, "push"))
                /\ last'.op.store = "B" /\ last'.op.op = "get" /\ last'.op.path = q )
              => /\ Len(calls') = 1
                 /\ IF Received(last, "set") THEN calls'[1].msg.value = last.op.msg.value
                    ELSE EndsWith(calls'[1].msg.value, last.op.msg.value) ]_vars

\* A, subscribed on its own root, set "B.a.b" to 2; B received it and B's
\* get("a.b") yields 2
C13_Witness ==
    /\ last.op.store = "B" /\ last.op.op = "get" /\ last.op.path = P_a_b
    /\ Len(calls) = 1 /\ calls[1].msg.value = Num(2)
    /\ subs["A"] # <<>> /\ tree["A"] = EmptyObj


\* C14: local set (without push) is idempotent on the tree: a set(p, v) that
\* follows an identical set(p, v) leaves the tree as the first one left it.
C14_SetIdempotent ==
    [][ ( /\ last.op.op = "set" /\ last'.op = last.op )
        => tree' = tree ]_vars

\* set("a.b", 1) twice in a row with a subscription on "a": the second call ran
\* the callback again and the tree is {"a": {"b": 1}}
C14_Witness ==
    /\ last.op.op = "set" /\ last.again /\ last.err = "" /\ last.op.path = P_a_b
    /\ calls # <<>>
    /\ tree["A"] = Obj([k \in {<<"a">>} |-> Obj([x \in {<<"b">>} |-> Num(1)])])


\* the record is one that unsubscribe(path, ...) of store s addresses by the
\* prefix rule: local records for a local path, records of the remote for a
\* path of the remote
Addressed(s, sub, path) ==
    LET ns == parse_namespace(Enter(s, "crash"), path)
    IN IF ns = <<>> THEN sub.remote.null /\ BeginsWith(path, sub.msg.path.path)
       ELSE ~sub.remote.null /\ BeginsWith(path, ns \o <<".">> \o sub.msg.path.path)

\* C15: unsubscribe(path, u) with a non-empty uuid u removes exactly the
\* subscriptions whose uuid (passed to or generated by subscribe) is u and
\* whose path passes the prefix rule, and returns their number: subscribe(p,
\* cb, ctx, u) followed by unsubscribe(p, u) removes the record and returns 1.
C15_TargetedUnsubscribe ==
    [][ LET s == last'.op.store
            u == last'.op.uuid
            p == last'.op.path
            Stays(sub) == ~(sub.msg.path.uuid = u /\ Addressed(s, sub, p))
        IN (last'.op.op = "unsubscribe" /\ u # "")
           => /\ subs'[s] = SelectSeq(subs[s], Stays)
              /\ last'.ret = Len(subs[s]) - Len(subs'[s]) ]_vars


\* C16: with an empty uuid, unsubscribe(path) on a local path removes exactly
\* the local subscriptions whose path is a string prefix of `path`, and keeps
\* the others in their order: unsubscribe("a.b") removes a subscription at
\* "a", unsubscribe("a") leaves one at "a.b".
C16_UnsubscribePrefix ==
    [][ LET s == last'.op.store
            p == last'.op.path
            Stays(sub) == ~(sub.remote.null /\ BeginsWith(p, sub.msg.path.path))
        IN ( /\ last'.op.op = "unsubscribe" /\ last'.op.uuid = ""
             /\ parse_namespace(Enter(s, "crash"), p) = <<>> )
           => /\ subs'[s] = SelectSeq(subs[s], Stays)
              /\ last'.ret = Len(subs[s]) - Len(subs'[s]) ]_vars

\* unsubscribe("a") removed the subscription at "a" and left the one at "a.b"
C16_Witness ==
    /\ last.op.op = "unsubscribe" /\ last.op.path = P_a /\ last.op.uuid = ""
    /\ last.ret = 1 /\ Len(subs["A"]) = 1
    /\ subs["A"][1].msg.path.path = P_a_b


\* the remote_t* points to the record of a remote that attach registered at s
\* and detach has not erased
Live(s, ref) == ~ref.null /\ ~ref.dangling /\ IsAttached(s, ref.key)

\* C17: in every reachable state every pending request and every remote
\* subscription refers to a remote that is currently attached.
C17_NoOrphans ==
    \A s \in Stores :
        /\ \A u \in DOMAIN requests[s] : Live(s, requests[s][u].remote)
        /\ \A i \in 1..Len(subs[s]) :
              ~subs[s][i].remote.null => Live(s, subs[s][i].remote)


\* C18: attach with a name already attached replaces the record: the registry
\* holds one remote of that name, with the new handler, and every message A
\* sends to that namespace afterwards, also for subscriptions and requests
\* made before, goes to the handler attached last.
C18_Reattach ==
    [][ LET r == NameOf("B")
        IN last'.op.store = "A"
           => /\ ~crashed'
              /\ DOMAIN remotes'["A"] = {r} /\ remotes'["A"][r].name = r
              /\ last'.op.op = "attach" => remotes'["A"][r].handler = last'.op.cb
              /\ last'.op.op # "attach" => remotes'["A"] = remotes["A"]
              /\ \A i \in 1..Len(sent') :
                    sent'[i].to = r /\ sent'[i].handler = remotes'["A"][r].handler ]_vars

\* A subscribed on "B.a" with uuid "u1" under handler 1 and attached "B" again
\* with handler 2; its unsubscribe message for that subscription went to 2
C18_Witness ==
    /\ last.op.store = "A" /\ last.op.op = "unsubscribe"
    /\ \E i \in 1..Len(sent) :
          /\ sent[i].msg.type = "unsubscribe" /\ sent[i].msg.path.uuid = "u1"
          /\ sent[i].handler = 2


\* nothing is held at the chain of keys and nothing is in the way: a key of an
\* object on the chain is missing, or null is held on the chain or at its end
RECURSIVE Vacant(_, _)
Vacant(j, keys) ==
    \/ j = Null
    \/ /\ keys # <<>> /\ j.t = "obj"
       /\ Head(keys) \in DOMAIN j.m => Vacant(j.m[Head(keys)], Tail(keys))

\* C19: push(path, v) on a local path is set(path, v, true): an absent target
\* becomes the array [v]; an array gets v as its last element, the earlier
\* elements unchanged and in order; and the callbacks of the local
\* subscriptions whose path begins `path` run, in registry order, each with an
\* event for its path, its uuid and the value then held there.
C19_Push ==
    [][ LET s   == last'.op.store
            p   == last'.op.path
            v   == last'.op.value
            old == Lookup(tree[s], Segments(p))
            new == Lookup(tree'[s], Segments(p))
            hit == SelectSeq(subs[s], LAMBDA sub : sub.remote.null
                                                   /\ BeginsWith(p, sub.msg.path.path))
        IN (last'.op.op = "push" /\ parse_namespace(Enter(s, "crash"), p) = <<>>)
           => /\ Vacant(tree[s], Segments(p)) => last'.err = "" /\ new = Arr(<<v>>)
              /\ old.t = "arr" => last'.err = "" /\ new = Arr(Append(old.a, v))
              /\ last'.err = ""
                 => /\ Len(calls') = Len(hit)
                    /\ \A j \in 1..Len(hit) :
                          /\ calls'[j].id = hit[j].callback.id
                          /\ calls'[j].msg =
                                Message("event", PathStr(hit[j].msg.path.path),
                                        hit[j].msg.path.uuid,
                                        Lookup(calls'[j].tree, Segments(hit[j].msg.path.path)))
                          /\ Lookup(calls'[j].tree, Segments(p)) = new ]_vars

\* push("a", 1) then push("a", 2) with a subscription on "a": the callback got
\* the array [1, 2]
C19_Witness ==
    /\ last.op.op = "push" /\ last.op.path = P_a /\ last.err = ""
    /\ tree["A"] = Obj([k \in {<<"a">>} |-> Arr(<<Num(1), Num(2)>>)])
    /\ \E j \in 1..Len(calls) : calls[j].msg.value = Arr(<<Num(1), Num(2)>>)


\* C20: the engine never invokes a handler for a remote that is not currently
\* attached: no call ends the process by calling through a null or freed
\* remote record, and every message handed to a handler in a call went to a
\* remote attached at that store.
C20_NoOrphanSend ==
    /\ ~crashed
    /\ \A i \in 1..Len(sent) : IsAttached(last.op.store, sent[i].to)


\* C21: when an inbound set or push message hits a tree type error (assigning
\* through a scalar, pushing onto a value that is neither null nor an array),
\* receive drops the message: no error reaches the caller of receive, the tree
\* is unchanged and no callback runs.
C21_InboundTypeError ==
    [][ LET m == last'.op.msg
            s == last'.op.store
        IN ( /\ Received(last', "set") \/ Received(last', "push")
             /\ m.path.k = "str"
             /\ IsErr(GetUnchecked(tree[s], PathPointer(m.path.path),
                                   IF m.type = "push" THEN "push" ELSE "assign", m.value)) )
           => ( last'.err = "" /\ tree' = tree /\ calls' = <<>> ) ]_vars


\* C22: a local set or push at path p that completes invokes exactly the local
\* subscriptions whose path is a string prefix of p, each once, with no
\* segment-boundary check: a subscription at "a" fires on a write at "ab", one
\* at "" on every write, one at "a.b" not on a write at "a".
C22_StringPrefix ==
    [][ LET s == last'.op.store
            p == last'.op.path
            matching == {i \in 1..Len(subs[s]) :
                           subs[s][i].remote.null /\ BeginsWith(p, subs[s][i].msg.path.path)}
        IN (last'.op.op \in {"set", "push"} /\ last'.err = "")
           => /\ Len(calls') = Cardinality(matching)
              /\ \A i \in matching :
                    Cardinality({j \in 1..Len(calls') :
                                    calls'[j].id = subs[s][i].callback.id}) = 1 ]_vars

\* with subscriptions at "a.b" and at "a", set("ab", 1) ran one callback: that
\* of "a"
C22_Witness ==
    /\ last.op.op = "set" /\ last.op.path = P_ab /\ last.err = ""
    /\ Len(subs["A"]) = 2
    /\ {subs["A"][i].msg.path.path : i \in 1..2} = {P_a, P_a_b}
    /\ Len(calls) = 1 /\ calls[1].msg.path = PathStr(P_a)


\* C23: a get of A on a path of B, under a uuid with no request pending,
\* records its request before it hands the one get message to the handler: a
\* value reply the handler delivers before it returns finds the entry, runs
\* the callback of this get once with the reply and removes the entry; when
\* no reply comes inside the call, exactly that request is left pending.
C23_RecordThenSend ==
    [][ LET u  == IF last'.op.uuid = "" THEN get_uuidstring ELSE last'.op.uuid
            toB == SelectSeq(sent', LAMBDA m : m.to = NameOf("B"))
            toA == SelectSeq(sent', LAMBDA m : m.to = NameOf("A"))
        IN ( /\ last'.op.op = "get" /\ last'.op.store = "A"
             /\ BeginsWith(last'.op.path, NameOf("B") \o <<".">>)
             /\ u \notin DOMAIN requests["A"] )
           => /\ Len(toB) = 1
              /\ toB[1].msg = Message("get", PathStr(SubSeq(last'.op.path, 3, Len(last'.op.path))),
                                      u, Null)
              /\ IF toA # <<>>
                 THEN /\ Len(toA) = 1 /\ toA[1].msg.type = "value" /\ toA[1].msg.uuid = u
                      /\ Len(calls') = 1
                      /\ calls'[1].id = last'.op.cb /\ calls'[1].msg = toA[1].msg
                      /\ requests'["A"] = requests["A"]
                 ELSE /\ calls' = <<>>
                      /\ DOMAIN requests'["A"] = DOMAIN requests["A"] \cup {u}
                      /\ requests'["A"][u].callback.id = last'.op.cb
                      /\ requests'["A"][u].msg = toB[1].msg ]_vars

\* B holds 2 at "a.b"; A's get("B.a.b") came back with the callback run on 2
\* and no request left
C23_Witness ==
    /\ last.op.op = "get" /\ last.op.path = P_B_a_b /\ last.err = ""
    /\ Len(calls) = 1 /\ calls[1].msg.value = Num(2) /\ calls[1].id = last.op.cb
    /\ Len(sent) = 2
    /\ DOMAIN requests["A"] = {}


\* C24: unsubscribe removes a remote subscription record only when the
\* namespace of its path names the record's own remote and the path begins
\* with ns + "." + the record's path; each such removal hands exactly one
\* unsubscribe message to that remote; an unsubscribe on a local path or on
\* another namespace neither removes the record nor transmits anything.
C24_RemoteUnsubscribe ==
    [][ LET s  == last'.op.store
            p  == last'.op.path
            ns == parse_namespace(Enter(s, "crash"), p)
            Remote_(sub) == ~sub.remote.null
            Goes(sub) == /\ Remote_(sub) /\ ns # <<>> /\ sub.remote.key = ns
                         /\ BeginsWith(p, ns \o <<".">> \o sub.msg.path.path)
            before == SelectSeq(subs[s], Remote_)
            after  == SelectSeq(subs'[s], Remote_)
            going  == SelectSeq(before, Goes)
        IN (last'.op.op = "unsubscribe" /\ last'.err = "" /\ ~crashed')
           => /\ \E keep \in SUBSET (1..Len(before)) :
                    /\ \A i \in 1..Len(before) : i \notin keep => Goes(before[i])
                    /\ after = SelectSeq(before, LAMBDA sub :
                                   \E i \in keep : before[i] = sub)
              /\ Len(before) - Len(after) = Len(sent')
              /\ \A j \in 1..Len(sent') :
                    /\ sent'[j].msg.type = "unsubscribe"
                    /\ \E i \in 1..Len(going) :
                          /\ sent'[j].to = going[i].remote.key
                          /\ sent'[j].msg.path = going[i].msg.path ]_vars


\* C25: on receive of a get message from A, B hands exactly one message to
\* its remote A and to no other: a value message with the request's uuid, the
\* requested path and B's value at that path (null if absent); B's tree is
\* unchanged.
C25_GetReply ==
    [][ LET m == last'.op.msg
        IN (last'.op.store = "B" /\ Received(last', "get") /\ last'.op.from = NameOf("A"))
           => /\ last'.err = "" /\ ~crashed'
              /\ Len(sent') = 1 /\ sent'[1].to = NameOf("A")
              /\ sent'[1].msg = Message("value", m.path, m.uuid,
                                        Lookup(tree["B"], Segments(m.path.path)))
              /\ tree' = tree ]_vars


\* C26: on receive of an event message from namespace n the callbacks invoked
\* are exactly those of the remote subscriptions whose remote is named n and
\* whose path is a string prefix of the message's path, in registry order and
\* each with the message; local subscriptions and those on other remotes are
\* not invoked, nothing is transmitted, and tree, requests and registry stay.
C26_InboundEvent ==
    [][ LET s == last'.op.store
            m == last'.op.msg
            n == last'.op.from
            hit == SelectSeq(subs[s], LAMBDA sub :
                       /\ ~sub.remote.null
                       /\ remotes[s][sub.remote.key].name = n
                       /\ BeginsWith(m.path.path, sub.msg.path.path))
        IN Received(last', "event")
           => /\ last'.err = "" /\ ~crashed'
              /\ Len(calls') = Len(hit)
              /\ \A j \in 1..Len(hit) :
                    calls'[j].id = hit[j].callback.id /\ calls'[j].msg = m
              /\ sent' = <<>>
              /\ tree' = tree /\ requests' = requests /\ subs' = subs ]_vars

\* A holds a subscription on "B.a" and one on "C.a"; an event for "ab" from
\* "C" ran the callback of the second only
C26_Witness ==
    /\ Received(last, "event") /\ last.op.from = NameOf("C")
    /\ last.op.msg.path = PathStr(P_ab)
    /\ Len(subs["A"]) = 2
    /\ subs["A"][1].remote.key = NameOf("B") /\ subs["A"][2].remote.key = NameOf("C")
    /\ Len(calls) = 1 /\ calls[1].id = subs["A"][2].callback.id


\* the callbacks of the records of a registry, in its order
CallbackIds(registry) == [i \in 1..Len(registry) |-> registry[i].callback.id]

\* C27: the registry holds the subscriptions in the order in which they were
\* subscribed (subscribe appends, unsubscribe keeps the order of the records
\* that remain, a write leaves the registry alone), and the fan-out of a local
\* set or push invokes the matching local subscriptions in that order.
C27_FanOutOrder ==
    [][ LET s   == last'.op.store
            p   == last'.op.path
            hit == SelectSeq(subs[s], LAMBDA sub :
                       sub.remote.null /\ BeginsWith(p, sub.msg.path.path))
        IN /\ last'.op.op = "subscribe"
              => /\ Len(subs'[s]) = Len(subs[s]) + 1
                 /\ SubSeq(subs'[s], 1, Len(subs[s])) = subs[s]
                 /\ subs'[s][Len(subs'[s])].callback.id = last'.op.cb
           /\ last'.op.op = "unsubscribe"
              => subs'[s] = SelectSeq(subs[s], LAMBDA sub :
                               \E i \in 1..Len(subs'[s]) : subs'[s][i] = sub)
           /\ last'.op.op \in {"set", "push"}
              => /\ subs'[s] = subs[s]
                 /\ last'.err = ""
                    => [j \in 1..Len(calls') |-> calls'[j].id] = CallbackIds(hit) ]_vars

\* the registry holds subscriptions at "ab", "a", "ab" in this order;
\* set("ab", 1) ran the three callbacks in the order of the registry
C27_Witness ==
    /\ last.op.op = "set" /\ last.op.path = P_ab /\ last.err = ""
    /\ Len(subs["A"]) = 3
    /\ [i \in 1..3 |-> subs["A"][i].msg.path.path] = <<P_ab, P_a, P_ab>>
    /\ [j \in 1..Len(calls) |-> calls[j].id] = CallbackIds(subs["A"])


\* C28: fan-out tolerates reentrancy: when a callback invoked during a local
\* set's fan-out subscribes on the same store, the set completes, every
\* matching subscription registered before the write is invoked exactly once,
\* in order, and a subscription added during the fan-out is not invoked for
\* that write.
C28_Reentrancy ==
    [][ LET s   == last'.op.store
            p   == last'.op.path
            hit == SelectSeq(subs[s], LAMBDA sub :
                       sub.remote.null /\ BeginsWith(p, sub.msg.path.path))
        IN (last'.op.op = "set" /\ last'.err = "")
           => /\ ~crashed'
              /\ [j \in 1..Len(calls') |-> calls'[j].id] = CallbackIds(hit) ]_vars


\* C29: a local set(p, v) that completes changes the tree only at p and at the
\* containers created on the way to p: the tree afterwards is the tree with v
\* assigned at p, the fan-out having only read it; no entry appears at a
\* subscribed path that was absent.
C29_SetFrame ==
    [][ LET s == last'.op.store
        IN (last'.op.op = "set" /\ last'.err = "" /\ ~crashed')
           => tree'[s] = GetUnchecked(tree[s], PathPointer(last'.op.path),
                                      "assign", last'.op.value) ]_vars


\* C30: a pending request is completed only by a value message received from
\* the remote the get was sent to: a value message with its uuid that arrives
\* under another name neither invokes the callback nor removes the entry.
C30_ReplyOrigin ==
    [][ LET s == last'.op.store
            u == last'.op.msg.uuid
        IN ( /\ Received(last', "value") /\ u \in DOMAIN requests[s]
             /\ requests[s][u].remote.key # last'.op.from )
           => ( calls' = <<>> /\ requests' = requests ) ]_vars


\* C31: with A and B attached to each other, one local write on B at a path
\* that a remote subscription of A matches (B holding the subscription, with
\* its path and uuid) invokes that subscription's callback on A exactly once, whatever
\* other subscriptions A holds on the same or on overlapping paths of B.
C31_EventOnce ==
    [][ \A i \in 1..MaxSubs :
          ( /\ last'.op.op = "set" /\ last'.op.store = "B"
            /\ last'.err = "" /\ ~crashed'
            /\ i <= Len(subs["A"]) /\ ~subs["A"][i].remote.null
            /\ StartsWith(last'.op.path, subs["A"][i].msg.path.path)
            /\ \E k \in 1..Len(subs["B"]) :
                  /\ subs["B"][k].callback.kind = "forward"
                  /\ subs["B"][k].msg.path = subs["A"][i].msg.path )
          => Cardinality({j \in 1..Len(calls') :
                            calls'[j].id = subs["A"][i].callback.id}) = 1 ]_vars


\* C32: receive never changes the remote registry: whatever message it
\* processes, under an attached name or not, the store's remotes (and with
\* them the namespace every path is classified under) are afterwards what
\* they were before.
C32_ReceiveFrame ==
    [][ LET s == last'.op.store
        IN last'.op.op = "receive"
           => /\ remotes'[s] = remotes[s]
              /\ \A p \in RegPaths :
                    parse_namespace([remotes |-> remotes'[s]], p)
                    = parse_namespace([remotes |-> remotes[s]], p) ]_vars


\* C33: every remote get call gets its own completion: with every message
\* delivered, each get of A on a path of B, also one made under a uuid that
\* another outstanding get of A already uses, leads to its own callback having
\* run exactly once.
C33_OwnCompletion ==
    \A c \in 1..(MaxPending + 1) :
        ( /\ last.op.op = "get" /\ last.op.store = "A" /\ last.op.cb = c
          /\ last.err = "" /\ ~crashed )
        ~> ( done[c] = 1 )


\* the value A wrote to "B.a" most recently: that of the newest set message
\* still on its way to B, or what B holds at "a" when none is on its way
LatestWrite ==
    LET w == wire["B"]
        I == {i \in 1..Len(w) : w[i].type = "set"}
    IN IF I = {} THEN Lookup(tree["B"], Segments(P_a))
       ELSE w[CHOOSE i \in I : \A j \in I : j <= i].value

\* C34: the engine does not reorder.  With in-order delivery both ways and A
\* the only writer of "a" on B: a get of A on "B.a" leads to its callback
\* being run once with the value A set last before the get; every set of A
\* leads to B holding its value at "a"; and no step but a set of A changes
\* the value A wrote most recently, so that of two sets v1, v2 the second
\* stays at B.
C34_NoReorder ==
    /\ \A c \in 1..(MaxPending + 1) : \A v \in FifoValues \cup {Null} :
          ( /\ last.op.op = "get" /\ last.op.store = "A" /\ last.op.cb = c
            /\ LatestWrite = v )
          ~> ( /\ done[c] = 1
               /\ \E j \in 1..Len(calls) : calls[j].id = c /\ calls[j].msg.value = v )
    /\ \A v \in FifoValues :
          ( last.op.op = "set" /\ last.op.store = "A" /\ last.op.value = v )
          ~> ( Lookup(tree["B"], Segments(P_a)) = v )
    /\ [][ IF last'.op.op = "set" /\ last'.op.store = "A"
           THEN LatestWrite' = last'.op.value
           ELSE LatestWrite' = LatestWrite ]_vars

\* A's callback got 2, the value A had set before the get, while a set of 1
\* that A made after the get is still on its way to B
C34_Witness ==
    /\ Received(last, "value") /\ last.op.store = "A"
    /\ Len(calls) = 1 /\ calls[1].msg.value = Num(2)
    /\ \E i \in 1..Len(wire["B"]) :
          wire["B"][i].type = "set" /\ wire["B"][i].value = Num(1)

====
